---- MODULE Spec2Model ----
(***************************************************************************)
(* MarketMind: the request orchestrator of services/gemini                 *)
(* (getLivePrice, analyzeStock, getForecast) as a state machine.           *)
(*                                                                         *)
(* Text is a sequence of one-character strings, so that concatenation,     *)
(* toLowerCase and includes are computed character by character.           *)
(* A value that may be absent (undefined / null) is a sequence of length   *)
(* zero or one.  A JSON value is a record tagged by its "type".            *)
(***************************************************************************)
EXTENDS Integers, Sequences, FiniteSets, TLC

VARIABLES
    pc,             \* position of the one call in progress ("idle" between calls)
    symbol,         \* argument symbol of the call
    mode,           \* argument mode of analyzeStock
    onStreamGiven,  \* whether analyzeStock was passed an onStream callback
    received,       \* chunks the stream iterator has yielded so far
    fullText,       \* analyzeStock: let fullText
    finalResponse,  \* analyzeStock: let finalResponse (<<>> is null)
    streamCalls,    \* arguments of the onStream invocations, in order
    context,        \* getForecast: const context (<<>> until assigned)
    requests,       \* requests this call has issued to the service, in order
    response,       \* how the awaited generateContent settled (<<>> until it does)
    result,         \* value the call's promise resolved with (<<>> until it settles)
    escaped,        \* TRUE iff the call's promise rejected (an exception escaped)
    market,         \* getTopPicks: argument market
    timeframe,      \* getTopPicks: argument timeframe
    strategy,       \* getTopPicks: let strategy
    prevPick,       \* the last getTopPicks call that returned: arguments, outcome, label
    uiSymbol,       \* App state: symbol
    isAnalyzing,    \* App state: isAnalyzing
    analysisResult, \* App state: analysisResult (<<>> is null)
    livePrice,      \* App state: livePrice (<<>> is null)
    currency,       \* App state: currency
    forecast,       \* App state: forecast (Null or a document)
    isForecasting,  \* App state: isForecasting
    picks,          \* App state: picks
    activeStrategy, \* App state: activeStrategy
    isPicking,      \* App state: isPicking
    analyses,       \* the handleAnalyze invocations, in the order they started
    forecastsOpen,  \* number of handleForecast invocations awaiting getForecast
    picksOpen,      \* timeframes of the handleGetPicks invocations awaiting getTopPicks
    resultWriter,   \* invocation whose setAnalysisResult ran last (0: reset to null)
    priceWriter,    \* invocation whose quote set livePrice last (0: reset to null)
    started,        \* number of handler invocations the user has started
    downloaded      \* code cells of the notebook downloaded last

\* the arguments and locals of getTopPicks
picksArgs == <<market, timeframe, strategy>>

\* the state of the App component and of its handlers in progress
uiVars == <<uiSymbol, isAnalyzing, analysisResult, livePrice, currency, forecast,
            isForecasting, picks, activeStrategy, isPicking, analyses,
            forecastsOpen, picksOpen, resultWriter, priceWriter, started,
            downloaded>>

\* what the calls of getLivePrice, analyzeStock and getForecast leave alone
restVars == <<prevPick, uiVars>>

\* the state of a direct call of one of the four service functions
callVars == <<pc, symbol, mode, onStreamGiven, received, fullText, finalResponse,
              streamCalls, context, requests, response, result, escaped,
              picksArgs>>

vars == <<callVars, restVars>>

-----------------------------------------------------------------------------
(* Bounds of the model *)

\* longest stream: number of chunks the service delivers before it ends or fails
MaxChunks == 3

\* longest scenarios array in a forecast document the service answers with
MaxScenarios == 3

\* number of handler invocations (Analyze, Generate Forecast, Find Top Picks)
\* the user starts in one session
MaxSubmits == 2

\* longest stream of an analysis started from the App
MaxUiChunks == 2

-----------------------------------------------------------------------------
(* Inputs *)

Symbols == {"NVDA", "ZZZZ"}

QUICK == "quick"
DEEP == "deep"
AnalysisMode == {QUICK, DEEP}

Null == [type |-> "null"]

-----------------------------------------------------------------------------
(* String primitives of the language, on sequences of characters *)

UpperChars == <<"A", "B", "C", "D", "E", "F", "G", "H", "I", "J", "K", "L", "M",
                "N", "O", "P", "Q", "R", "S", "T", "U", "V", "W", "X", "Y", "Z">>

LowerChars == <<"a", "b", "c", "d", "e", "f", "g", "h", "i", "j", "k", "l", "m",
                "n", "o", "p", "q", "r", "s", "t", "u", "v", "w", "x", "y", "z">>

ToLowerChar(c) ==
    IF \E i \in 1..Len(UpperChars) : UpperChars[i] = c
    THEN LowerChars[CHOOSE i \in 1..Len(UpperChars) : UpperChars[i] = c]
    ELSE c

\* String.prototype.toLowerCase
toLowerCase(s) == [i \in 1..Len(s) |-> ToLowerChar(s[i])]

\* String.prototype.includes
includes(s, kw) ==
    \E i \in 0..(Len(s) - Len(kw)) : SubSeq(s, i + 1, i + Len(kw)) = kw

-----------------------------------------------------------------------------
(* The generation service *)

\* response.text: undefined, the empty string, text that is not JSON, or the
\* JSON text of a document.  doc is the value the text denotes.
TextUndefined == [kind |-> "undefined"]
TextEmpty == [kind |-> "empty"]
TextMalformed == [kind |-> "malformed"]
JsonText(doc) == [kind |-> "json", doc |-> doc]

\* truthiness of response.text: undefined and "" are falsy
Truthy(text) == text.kind \in {"malformed", "json"}

\* JSON.parse: throws SyntaxError on text that is not JSON, otherwise yields
\* the value the text denotes
JSONParse(text) ==
    IF text.kind = "json"
    THEN [threw |-> FALSE, value |-> text.doc]
    ELSE [threw |-> TRUE]

\* generateContent either rejects or resolves with a response
Throws == [threw |-> TRUE]
Responds(text) == [threw |-> FALSE, text |-> text]

-----------------------------------------------------------------------------
(* getLivePrice *)

USD == <<"U", "S", "D">>
INR == <<"I", "N", "R">>
Rupees == <<"R", "s">>
NYSE == <<"N", "Y", "S", "E">>

\* documents the service can answer the price request with: the schema asks
\* for price (number), currency (string), exchange (string) and bounds none
\* of them
QuoteDocs ==
    {[type |-> "object", price |-> p, currency |-> c, exchange |-> NYSE] :
        p \in {-5, 0, 150}, c \in {USD, INR, Rupees}}
    \cup {Null, [type |-> "number", num |-> 0],
          [type |-> "object", currency |-> USD, exchange |-> NYSE]}

QuoteResponses ==
    {Throws, Responds(TextUndefined), Responds(TextEmpty), Responds(TextMalformed)}
    \cup {Responds(JsonText(d)) : d \in QuoteDocs}

PriceRequest(s) == [model |-> "gemini-2.5-flash", about |-> "price", symbol |-> s]

\* the try block once generateContent has settled with resp
GetLivePriceTry(resp) ==
    IF resp.threw THEN [threw |-> TRUE]
    ELSE IF Truthy(resp.text) THEN JSONParse(resp.text)
    ELSE [threw |-> FALSE, value |-> Null]

\* variant: the catch block handles only a rejected request, so a SyntaxError
\* of JSON.parse escapes
GetLivePriceBodyParseEscapes(resp) ==
    IF resp.threw
    THEN [threw |-> FALSE, value |-> Null]
    ELSE GetLivePriceTry(resp)

\* the whole body: the catch block turns every exception into null
GetLivePriceBody(resp) ==
    IF GetLivePriceTry(resp).threw
    THEN [threw |-> FALSE, value |-> Null]
    ELSE GetLivePriceTry(resp)

\* getLivePrice(s) up to its await: the price request is issued
GetLivePriceCall(s) ==
    /\ pc = "idle"
    /\ pc' = "priceAwait"
    /\ symbol' = s
    /\ requests' = <<PriceRequest(s)>>
    /\ UNCHANGED <<mode, onStreamGiven, received, fullText, finalResponse,
                   streamCalls, context, result, escaped, response>>
    /\ UNCHANGED <<picksArgs, restVars>>

\* variant: a rejected request is issued once more
GetLivePriceResumeRetries(resp) ==
    /\ pc = "priceAwait"
    /\ response' = <<resp>>
    /\ IF resp.threw /\ Len(requests) < 2
       THEN /\ pc' = "priceAwait"
            /\ requests' = Append(requests, PriceRequest(symbol))
            /\ UNCHANGED <<result, escaped>>
       ELSE /\ pc' = "priceDone"
            /\ escaped' = GetLivePriceBody(resp).threw
            /\ result' = IF GetLivePriceBody(resp).threw THEN <<>>
                         ELSE <<GetLivePriceBody(resp).value>>
            /\ UNCHANGED requests
    /\ UNCHANGED <<symbol, mode, onStreamGiven, received, fullText, finalResponse,
                   streamCalls, context>>
    /\ UNCHANGED <<picksArgs, restVars>>

\* the request settles with resp and getLivePrice runs to its end
GetLivePriceResume(resp) ==
    /\ pc = "priceAwait"
    /\ pc' = "priceDone"
    /\ response' = <<resp>>
    /\ escaped' = GetLivePriceBody(resp).threw
    /\ result' = IF GetLivePriceBody(resp).threw THEN <<>>
                 ELSE <<GetLivePriceBody(resp).value>>
    /\ UNCHANGED <<symbol, mode, onStreamGiven, received, fullText, finalResponse,
                   streamCalls, context, requests>>
    /\ UNCHANGED <<picksArgs, restVars>>

-----------------------------------------------------------------------------
(* analyzeStock *)

FailureMessage == <<"F", "a", "i", "l", "e", "d", " ", "t", "o", " ", "g", "e", "n", "e", "r", "a", "t", "e", " ", "a", "n", "a", "l", "y", "s", "i", "s", ".", " ", "P", "l", "e", "a", "s", "e", " ", "t", "r", "y", " ", "a", "g", "a", "i", "n", ".">>

\* texts the stream's chunks may carry
TxtBu == <<"B", "u">>
TxtY == <<"y">>
TxtSELL == <<"S", "E", "L", "L">>
TxtPass == <<"p", "a", "s", "s">>
TxtInvest == <<"I", "n", "v", "e", "s", "t">>
TxtBullish == <<"b", "u", "l", "l", "i", "s", "h">>
TxtBearish == <<"B", "e", "a", "r", "i", "s", "h">>
TxtNvdaLooks == <<"N", "V", "D", "A", " ", "l", "o", "o", "k", "s", " ">>
TxtStrongBuy == <<"l", "i", "k", "e", " ", "a", " ", "s", "t", "r", "o", "n", "g", " ", "b", "u", "y", ".">>

\* grounding citations
Source1 == [web |-> [uri |-> "https://a.example", title |-> "A"]]
Source2 == [web |-> [uri |-> "https://b.example", title |-> "B"]]

\* a chunk of the stream: text may be undefined (hasText = FALSE);
\* grounding is <<>> when candidates[0].groundingMetadata.groundingChunks is
\* undefined and <<array>> when it is present
TextChunk(t) == [hasText |-> TRUE, text |-> t, grounding |-> <<>>]

Chunks ==
    {TextChunk(t) : t \in {TxtBu, TxtY, TxtSELL, TxtPass, TxtInvest, TxtBullish,
                           TxtBearish, TxtNvdaLooks, TxtStrongBuy}}
    \cup {[hasText |-> FALSE, text |-> <<>>, grounding |-> << <<Source1, Source2>> >>]}

\* modelName, systemInstruction, prompt and config of the streaming request
AnalysisRequest(s, m) ==
    [model |-> IF m = DEEP THEN "gemini-3-pro-preview" ELSE "gemini-2.5-flash",
     about |-> "analysis",
     persona |-> IF m = DEEP THEN "Master Investor" ELSE "MarketMind",
     thinkingBudget |-> IF m = DEEP THEN <<4096>> ELSE <<>>,
     symbol |-> s]

\* variant: fullText += chunk.text, which appends "undefined" for a chunk
\* without text
ChunkTextUndefined(chunk) ==
    IF chunk.hasText THEN chunk.text
    ELSE <<"u", "n", "d", "e", "f", "i", "n", "e", "d">>

\* const text = chunk.text || ""
ChunkText(chunk) == IF chunk.hasText THEN chunk.text ELSE <<>>

\* fullText += text
NextFullText(full, chunk) == full \o ChunkText(chunk)

\* variant: onStream is skipped when the buffer did not grow
NextStreamCallsOnGrowth(calls, given, newFull) ==
    IF given /\ (calls = <<>> \/ calls[Len(calls)] # newFull)
    THEN Append(calls, newFull)
    ELSE calls

\* if (onStream) onStream(fullText)
NextStreamCalls(calls, given, newFull) ==
    IF given THEN Append(calls, newFull) ELSE calls

\* variant: the verdict word is returned instead of the sentiment
DetermineSentimentVerdict(text) ==
    IF \/ includes(toLowerCase(text), <<"i", "n", "v", "e", "s", "t">>)
       \/ includes(toLowerCase(text), <<"b", "u", "y">>)
       \/ includes(toLowerCase(text), <<"b", "u", "l", "l", "i", "s", "h">>)
    THEN "buy"
    ELSE IF \/ includes(toLowerCase(text), <<"p", "a", "s", "s">>)
            \/ includes(toLowerCase(text), <<"s", "e", "l", "l">>)
            \/ includes(toLowerCase(text), <<"b", "e", "a", "r", "i", "s", "h">>)
    THEN "sell"
    ELSE "hold"

\* variant: the keywords are searched in fullText, not in lowerText
DetermineSentimentCaseSensitive(text) ==
    IF \/ includes(text, <<"i", "n", "v", "e", "s", "t">>)
       \/ includes(text, <<"b", "u", "y">>)
       \/ includes(text, <<"b", "u", "l", "l", "i", "s", "h">>)
    THEN "bullish"
    ELSE IF \/ includes(text, <<"p", "a", "s", "s">>)
            \/ includes(text, <<"s", "e", "l", "l">>)
            \/ includes(text, <<"b", "e", "a", "r", "i", "s", "h">>)
    THEN "bearish"
    ELSE "neutral"

\* variant: the bearish test leaves out 'sell'
DetermineSentimentNoSell(text) ==
    IF \/ includes(toLowerCase(text), <<"i", "n", "v", "e", "s", "t">>)
       \/ includes(toLowerCase(text), <<"b", "u", "y">>)
       \/ includes(toLowerCase(text), <<"b", "u", "l", "l", "i", "s", "h">>)
    THEN "bullish"
    ELSE IF \/ includes(toLowerCase(text), <<"p", "a", "s", "s">>)
            \/ includes(toLowerCase(text), <<"b", "e", "a", "r", "i", "s", "h">>)
    THEN "bearish"
    ELSE "neutral"

\* variant: sentiment starts as 'bullish' instead of 'neutral'
DetermineSentimentStartsBullish(text) ==
    IF \/ includes(toLowerCase(text), <<"i", "n", "v", "e", "s", "t">>)
       \/ includes(toLowerCase(text), <<"b", "u", "y">>)
       \/ includes(toLowerCase(text), <<"b", "u", "l", "l", "i", "s", "h">>)
    THEN "bullish"
    ELSE IF \/ includes(toLowerCase(text), <<"p", "a", "s", "s">>)
            \/ includes(toLowerCase(text), <<"s", "e", "l", "l">>)
            \/ includes(toLowerCase(text), <<"b", "e", "a", "r", "i", "s", "h">>)
    THEN "bearish"
    ELSE "bullish"

\* the sentiment rule applied to the full text
DetermineSentiment(text) ==
    IF \/ includes(toLowerCase(text), <<"i", "n", "v", "e", "s", "t">>)
       \/ includes(toLowerCase(text), <<"b", "u", "y">>)
       \/ includes(toLowerCase(text), <<"b", "u", "l", "l", "i", "s", "h">>)
    THEN "bullish"
    ELSE IF \/ includes(toLowerCase(text), <<"p", "a", "s", "s">>)
            \/ includes(toLowerCase(text), <<"s", "e", "l", "l">>)
            \/ includes(toLowerCase(text), <<"b", "e", "a", "r", "i", "s", "h">>)
    THEN "bearish"
    ELSE "neutral"

\* finalResponse?.candidates?.[0]?.groundingMetadata?.groundingChunks || []
GroundingChunksOf(final) ==
    IF final = <<>> THEN <<>>
    ELSE IF final[1].grounding = <<>> THEN <<>>
    ELSE final[1].grounding[1]

\* the value returned after the loop
AnalyzeStockReturn(full, final) ==
    [markdown |-> full,
     groundingChunks |-> GroundingChunksOf(final),
     sentiment |-> DetermineSentiment(full)]

\* variant: the catch block logs and rethrows
AnalyzeStockCatchRethrows == [threw |-> TRUE]

\* the catch block: what a throw inside the try block becomes
AnalyzeStockCatch ==
    [threw |-> FALSE,
     value |-> [markdown |-> FailureMessage, sentiment |-> "neutral"]]

\* analyzeStock(s, m, onStream) up to its first await: the request is built
\* and generateContentStream is called
AnalyzeStockCall(s, m, given) ==
    /\ pc = "idle"
    /\ pc' = "streamOpening"
    /\ symbol' = s
    /\ mode' = m
    /\ onStreamGiven' = given
    /\ requests' = <<AnalysisRequest(s, m)>>
    /\ UNCHANGED <<received, fullText, finalResponse, streamCalls, context,
                   result, escaped, response>>
    /\ UNCHANGED <<picksArgs, restVars>>

\* generateContentStream resolves: fullText = "", finalResponse = null
StreamOpens ==
    /\ pc = "streamOpening"
    /\ pc' = "streaming"
    /\ fullText' = <<>>
    /\ finalResponse' = <<>>
    /\ UNCHANGED <<symbol, mode, onStreamGiven, received, streamCalls, context,
                   requests, result, escaped, response>>
    /\ UNCHANGED <<picksArgs, restVars>>

\* variant: only a chunk that carries citations replaces the kept chunk
StreamChunkKeepsCited(chunk) ==
    /\ pc = "streaming"
    /\ Len(received) < MaxChunks
    /\ received' = Append(received, chunk)
    /\ fullText' = NextFullText(fullText, chunk)
    /\ streamCalls' = NextStreamCalls(streamCalls, onStreamGiven,
                                      NextFullText(fullText, chunk))
    /\ finalResponse' = IF chunk.grounding # <<>> THEN <<chunk>> ELSE finalResponse
    /\ UNCHANGED <<pc, symbol, mode, onStreamGiven, context, requests, result,
                   escaped, response>>
    /\ UNCHANGED <<picksArgs, restVars>>

\* one iteration of the for-await loop over chunk
StreamChunk(chunk) ==
    /\ pc = "streaming"
    /\ Len(received) < MaxChunks
    /\ received' = Append(received, chunk)
    /\ fullText' = NextFullText(fullText, chunk)
    /\ streamCalls' = NextStreamCalls(streamCalls, onStreamGiven,
                                      NextFullText(fullText, chunk))
    /\ finalResponse' = <<chunk>>
    /\ UNCHANGED <<pc, symbol, mode, onStreamGiven, context, requests, result,
                   escaped, response>>
    /\ UNCHANGED <<picksArgs, restVars>>

\* the stream ends: sentiment is determined and the result returned
StreamEnds ==
    /\ pc = "streaming"
    /\ pc' = "analysisReturned"
    /\ result' = <<AnalyzeStockReturn(fullText, finalResponse)>>
    /\ escaped' = FALSE
    /\ UNCHANGED <<symbol, mode, onStreamGiven, received, fullText,
                   finalResponse, streamCalls, context, requests, response>>
    /\ UNCHANGED <<picksArgs, restVars>>

\* generateContentStream rejects, or the iterator throws after the chunks
\* received so far
StreamThrows ==
    /\ pc \in {"streamOpening", "streaming"}
    /\ pc' = "analysisCaught"
    /\ escaped' = AnalyzeStockCatch.threw
    /\ result' = IF AnalyzeStockCatch.threw THEN <<>>
                 ELSE <<AnalyzeStockCatch.value>>
    /\ UNCHANGED <<symbol, mode, onStreamGiven, received, fullText,
                   finalResponse, streamCalls, context, requests, response>>
    /\ UNCHANGED <<picksArgs, restVars>>

-----------------------------------------------------------------------------
(* getForecast *)

ScenarioTypes == {"Bearish", "Base", "Bullish"}

\* a scenario as the service writes it; the schema bounds neither the number
\* of scenarios nor the value of type
ScenarioOf(t) ==
    [type |-> t,
     priceTarget |-> IF t = "Bearish" THEN 120 ELSE IF t = "Base" THEN 150 ELSE 180,
     probability |-> IF t = "Base" THEN 50 ELSE 25,
     reasoning |-> "because"]

ScenarioLists ==
    UNION {[1..n -> {ScenarioOf(t) : t \in ScenarioTypes}] : n \in 0..MaxScenarios}

\* documents the service can answer the forecast request with
ForecastDocs ==
    {[type |-> "object", symbol |-> "NVDA", scenarios |-> sc, confidenceScore |-> 70] :
        sc \in ScenarioLists}
    \cup {Null, [type |-> "object", symbol |-> "NVDA", confidenceScore |-> 70]}

ForecastResponses ==
    {Throws, Responds(TextUndefined), Responds(TextEmpty), Responds(TextMalformed)}
    \cup {Responds(JsonText(d)) : d \in ForecastDocs}

\* contextResp.text: free text, or undefined
ContextTexts == {TextUndefined, [kind |-> "plain", content |-> "150 USD on NASDAQ"]}

ContextResponses == {Throws} \cup {Responds(t) : t \in ContextTexts}

\* step 1: the context request
ContextRequest(s) ==
    [model |-> "gemini-2.5-flash", about |-> "context", symbol |-> s]

\* variant: the forecast prompt is built without the context
ForecastRequestNoContext(s, ctx) ==
    [model |-> "gemini-3-pro-preview", about |-> "forecast", symbol |-> s,
     context |-> TextUndefined, thinkingBudget |-> <<2048>>]

\* step 2: the forecast request; its prompt embeds ${context}
ForecastRequest(s, ctx) ==
    [model |-> "gemini-3-pro-preview", about |-> "forecast", symbol |-> s,
     context |-> ctx, thinkingBudget |-> <<2048>>]

\* the rest of the try block once the forecast request has settled with resp
GetForecastTry(resp) ==
    IF resp.threw THEN [threw |-> TRUE]
    ELSE IF Truthy(resp.text) THEN JSONParse(resp.text)
    ELSE [threw |-> FALSE, value |-> Null]

\* variant: the catch block handles only a rejected request, so a SyntaxError
\* of JSON.parse escapes
GetForecastBodyParseEscapes(resp) ==
    IF resp.threw
    THEN [threw |-> FALSE, value |-> Null]
    ELSE GetForecastTry(resp)

\* the catch block turns every exception into null
GetForecastBody(resp) ==
    IF GetForecastTry(resp).threw
    THEN [threw |-> FALSE, value |-> Null]
    ELSE GetForecastTry(resp)

\* getForecast(s) up to its first await: the context request is issued
GetForecastCall(s) ==
    /\ pc = "idle"
    /\ pc' = "contextAwait"
    /\ symbol' = s
    /\ requests' = <<ContextRequest(s)>>
    /\ UNCHANGED <<mode, onStreamGiven, received, fullText, finalResponse,
                   streamCalls, context, result, escaped, response>>
    /\ UNCHANGED <<picksArgs, restVars>>

\* the context request settles: on a throw the catch block returns null,
\* otherwise the forecast request is issued with the context in its prompt
GetForecastContext(resp) ==
    /\ pc = "contextAwait"
    /\ response' = <<resp>>
    /\ IF resp.threw
       THEN /\ pc' = "forecastDone"
            /\ escaped' = GetForecastBody(resp).threw
            /\ result' = IF GetForecastBody(resp).threw THEN <<>>
                         ELSE <<GetForecastBody(resp).value>>
            /\ UNCHANGED <<context, requests>>
       ELSE /\ pc' = "forecastAwait"
            /\ context' = <<resp.text>>
            /\ requests' = Append(requests, ForecastRequest(symbol, resp.text))
            /\ UNCHANGED <<result, escaped>>
    /\ UNCHANGED <<symbol, mode, onStreamGiven, received, fullText, finalResponse,
                   streamCalls>>
    /\ UNCHANGED <<picksArgs, restVars>>

\* the forecast request settles with resp and getForecast runs to its end
GetForecastResume(resp) ==
    /\ pc = "forecastAwait"
    /\ pc' = "forecastDone"
    /\ response' = <<resp>>
    /\ escaped' = GetForecastBody(resp).threw
    /\ result' = IF GetForecastBody(resp).threw THEN <<>>
                 ELSE <<GetForecastBody(resp).value>>
    /\ UNCHANGED <<symbol, mode, onStreamGiven, received, fullText, finalResponse,
                   streamCalls, context, requests>>
    /\ UNCHANGED <<picksArgs, restVars>>

-----------------------------------------------------------------------------
(* getTopPicks *)

\* the strategy labels
IntraDayMomentum == "INTRA-DAY MOMENTUM. Focus on high relative volume, pre-market movers, earnings beats, and immediate volatility."
SwingTrading == "SWING TRADING. Focus on technical breakouts, sector rotation, and short-term news catalysts."
ShortToMediumTermTrend == "SHORT-TO-MEDIUM TERM TREND. Focus on earnings growth, relative strength (RSI), and moving average crossovers."
PositionTrading == "POSITION TRADING. Focus on macro trends, fundamental growth, and sustained sector leadership."
TrendFollowing == "TREND FOLLOWING. Focus on fundamental catalysts and technical trends."
LongTermValue == "LONG TERM VALUE & COMPOUNDING. Focus on undervalued companies with wide moats, high ROIC, and durable competitive advantages (Buffett Style)."
BalancedGrowthValue == "BALANCED GROWTH & VALUE. Focus on companies with strong fundamentals and technical uptrends."

\* timeframe strings: the options of the timeframe select and custom horizons
TfIntradayOption == <<"I", "n", "t", "r", "a", "d", "a", "y", " ", "(", "D", "a", "y", " ", "T", "r", "a", "d", "e", ")">>
TfWeekOption == <<"1", " ", "W", "e", "e", "k", " ", "(", "S", "w", "i", "n", "g", ")">>
TfMonthOption == <<"1", " ", "M", "o", "n", "t", "h", " ", "(", "S", "h", "o", "r", "t", " ", "T", "e", "r", "m", ")">>
TfSixMonthsOption == <<"6", " ", "M", "o", "n", "t", "h", "s", " ", "(", "P", "o", "s", "i", "t", "i", "o", "n", ")">>
TfYearOption == <<"1", " ", "Y", "e", "a", "r", "+", " ", "(", "I", "n", "v", "e", "s", "t", "i", "n", "g", ")">>
TfIntraday == <<"I", "n", "t", "r", "a", "d", "a", "y">>
TfFiveYears == <<"5", " ", "Y", "e", "a", "r", "s">>
TfNineMonths == <<"9", " ", "m", "o", "n", "t", "h", "s">>
TfTwelveMonths == <<"1", "2", " ", "M", "o", "n", "t", "h", "s">>
TfLongTerm == <<"L", "o", "n", "g", " ", "t", "e", "r", "m">>
TfMonthsUpper == <<"M", "O", "N", "T", "H", "S">>

Timeframes ==
    {TfIntradayOption, TfWeekOption, TfMonthOption, TfSixMonthsOption,
     TfYearOption, TfIntraday, TfFiveYears, TfNineMonths,
     TfTwelveMonths, TfLongTerm, TfMonthsUpper}

Markets == {"US", "IN"}

\* variant: the keywords are searched in timeframe, not in tf
SelectStrategyCaseSensitive(tfArg) ==
    IF includes(tfArg, <<"d", "a", "y">>)
       \/ includes(tfArg, <<"i", "n", "t", "r", "a", "d", "a", "y">>)
    THEN IntraDayMomentum
    ELSE IF includes(tfArg, <<"w", "e", "e", "k">>)
    THEN SwingTrading
    ELSE IF includes(tfArg, <<"m", "o", "n", "t", "h">>)
    THEN IF includes(tfArg, <<"1">>) \/ includes(tfArg, <<"2">>) \/ includes(tfArg, <<"3">>)
         THEN ShortToMediumTermTrend
         ELSE IF includes(tfArg, <<"4">>) \/ includes(tfArg, <<"5">>) \/ includes(tfArg, <<"6">>)
         THEN PositionTrading
         ELSE TrendFollowing
    ELSE IF includes(tfArg, <<"y", "e", "a", "r">>)
    THEN LongTermValue
    ELSE BalancedGrowthValue

\* variant: the generic months fallback carries a label of its own wording
SelectStrategyUnlistedLabel(tfArg) ==
    IF includes(toLowerCase(tfArg), <<"d", "a", "y">>)
       \/ includes(toLowerCase(tfArg), <<"i", "n", "t", "r", "a", "d", "a", "y">>)
    THEN IntraDayMomentum
    ELSE IF includes(toLowerCase(tfArg), <<"w", "e", "e", "k">>)
    THEN SwingTrading
    ELSE IF includes(toLowerCase(tfArg), <<"m", "o", "n", "t", "h">>)
    THEN IF \/ includes(toLowerCase(tfArg), <<"1">>)
            \/ includes(toLowerCase(tfArg), <<"2">>)
            \/ includes(toLowerCase(tfArg), <<"3">>)
         THEN ShortToMediumTermTrend
         ELSE IF \/ includes(toLowerCase(tfArg), <<"4">>)
                 \/ includes(toLowerCase(tfArg), <<"5">>)
                 \/ includes(toLowerCase(tfArg), <<"6">>)
         THEN PositionTrading
         ELSE "GROWTH. Focus on whatever is moving."
    ELSE IF includes(toLowerCase(tfArg), <<"y", "e", "a", "r">>)
    THEN LongTermValue
    ELSE BalancedGrowthValue

\* const tf = timeframe.toLowerCase() and the strategy chosen from it
SelectStrategy(tfArg) ==
    IF includes(toLowerCase(tfArg), <<"d", "a", "y">>)
       \/ includes(toLowerCase(tfArg), <<"i", "n", "t", "r", "a", "d", "a", "y">>)
    THEN IntraDayMomentum
    ELSE IF includes(toLowerCase(tfArg), <<"w", "e", "e", "k">>)
    THEN SwingTrading
    ELSE IF includes(toLowerCase(tfArg), <<"m", "o", "n", "t", "h">>)
    THEN IF \/ includes(toLowerCase(tfArg), <<"1">>)
            \/ includes(toLowerCase(tfArg), <<"2">>)
            \/ includes(toLowerCase(tfArg), <<"3">>)
         THEN ShortToMediumTermTrend
         ELSE IF \/ includes(toLowerCase(tfArg), <<"4">>)
                 \/ includes(toLowerCase(tfArg), <<"5">>)
                 \/ includes(toLowerCase(tfArg), <<"6">>)
         THEN PositionTrading
         ELSE TrendFollowing
    ELSE IF includes(toLowerCase(tfArg), <<"y", "e", "a", "r">>)
    THEN LongTermValue
    ELSE BalancedGrowthValue

\* recommendations as the service writes them
RecOf(s) ==
    [symbol |-> s, name |-> s, price |-> "$150", currency |-> "USD",
     action |-> "Buy", reasoning |-> "because", riskLevel |-> "Medium",
     potentialUpside |-> "10%", sources |-> <<"news">>]

ArrayOf(items) == [type |-> "array", items |-> items]

\* the empty array literal []
EmptyArray == ArrayOf(<<>>)

\* documents the service can answer the screener request with
PicksDocs ==
    {EmptyArray, ArrayOf(<<RecOf("TSLA")>>), ArrayOf(<<RecOf("TSLA"), RecOf("AAPL")>>),
     Null}

PicksResponses ==
    {Throws, Responds(TextUndefined), Responds(TextEmpty), Responds(TextMalformed)}
    \cup {Responds(JsonText(d)) : d \in PicksDocs}

\* marketContext and the prompt of the screener request
PicksRequest(m, tfArg, strat) ==
    [model |-> "gemini-3-pro-preview", about |-> "picks",
     marketContext |-> IF m = "IN" THEN "Indian Stock Market (NSE/BSE). Prices in INR."
                       ELSE "US Stock Market (NYSE/NASDAQ). Prices in USD.",
     horizon |-> tfArg, strategy |-> strat]

\* the try block once generateContent has settled with resp
GetTopPicksTry(strat, resp) ==
    IF resp.threw THEN [threw |-> TRUE]
    ELSE IF Truthy(resp.text)
    THEN IF JSONParse(resp.text).threw THEN [threw |-> TRUE]
         ELSE [threw |-> FALSE,
               value |-> [recommendations |-> JSONParse(resp.text).value,
                          strategyUsed |-> strat]]
    ELSE [threw |-> FALSE,
          value |-> [recommendations |-> EmptyArray, strategyUsed |-> strat]]

\* variant: the catch block handles only a rejected request, so a SyntaxError
\* of JSON.parse escapes
GetTopPicksBodyParseEscapes(strat, resp) ==
    IF resp.threw
    THEN [threw |-> FALSE,
          value |-> [recommendations |-> EmptyArray, strategyUsed |-> strat]]
    ELSE GetTopPicksTry(strat, resp)

\* variant: the catch block returns an empty label
GetTopPicksBodyDropsLabel(strat, resp) ==
    IF GetTopPicksTry(strat, resp).threw
    THEN [threw |-> FALSE,
          value |-> [recommendations |-> EmptyArray, strategyUsed |-> ""]]
    ELSE GetTopPicksTry(strat, resp)

\* the try and catch blocks: every exception becomes the empty list with the
\* selected label
GetTopPicksBody(strat, resp) ==
    IF GetTopPicksTry(strat, resp).threw
    THEN [threw |-> FALSE,
          value |-> [recommendations |-> EmptyArray, strategyUsed |-> strat]]
    ELSE GetTopPicksTry(strat, resp)

\* getTopPicks(m, tfArg) up to its await: the strategy is selected and the
\* screener request issued
GetTopPicksCall(m, tfArg) ==
    /\ pc = "idle"
    /\ pc' = "picksAwait"
    /\ market' = m
    /\ timeframe' = tfArg
    /\ strategy' = SelectStrategy(tfArg)
    /\ requests' = <<PicksRequest(m, tfArg, SelectStrategy(tfArg))>>
    /\ UNCHANGED <<symbol, mode, onStreamGiven, received, fullText, finalResponse,
                   streamCalls, context, response, result, escaped>>
    /\ UNCHANGED restVars

\* the request settles with resp and getTopPicks runs to its end
GetTopPicksResume(resp) ==
    /\ pc = "picksAwait"
    /\ pc' = "picksDone"
    /\ response' = <<resp>>
    /\ escaped' = GetTopPicksBody(strategy, resp).threw
    /\ result' = IF GetTopPicksBody(strategy, resp).threw THEN <<>>
                 ELSE <<GetTopPicksBody(strategy, resp).value>>
    /\ UNCHANGED <<symbol, mode, onStreamGiven, received, fullText, finalResponse,
                   streamCalls, context, requests>>
    /\ UNCHANGED <<picksArgs, restVars>>

-----------------------------------------------------------------------------
(* The caller *)

\* the state of a call that has not started
ResetCall ==
    /\ pc' = "idle"
    /\ symbol' = "NVDA"
    /\ mode' = QUICK
    /\ onStreamGiven' = FALSE
    /\ received' = <<>>
    /\ fullText' = <<>>
    /\ finalResponse' = <<>>
    /\ streamCalls' = <<>>
    /\ context' = <<>>
    /\ requests' = <<>>
    /\ response' = <<>>
    /\ result' = <<>>
    /\ escaped' = FALSE
    /\ market' = "US"
    /\ timeframe' = <<>>
    /\ strategy' = ""

\* the caller has taken the settled promise; the next call starts afresh
Return ==
    /\ pc \in {"priceDone", "analysisReturned", "analysisCaught", "forecastDone",
               "picksDone"}
    /\ ResetCall
    /\ UNCHANGED restVars

\* a caller of getTopPicks that keeps the label it was given, to compare it
\* with the label of its next call
PicksReturn ==
    /\ pc = "picksDone"
    /\ prevPick' = IF escaped THEN <<>>
                   ELSE <<[timeframe |-> timeframe, market |-> market,
                           threw |-> response[1].threw,
                           strategyUsed |-> result[1].strategyUsed]>>
    /\ ResetCall
    /\ UNCHANGED uiVars

Init ==
    /\ pc = "idle"
    /\ symbol = "NVDA"
    /\ mode = QUICK
    /\ onStreamGiven = FALSE
    /\ received = <<>>
    /\ fullText = <<>>
    /\ finalResponse = <<>>
    /\ streamCalls = <<>>
    /\ context = <<>>
    /\ requests = <<>>
    /\ response = <<>>
    /\ result = <<>>
    /\ escaped = FALSE
    /\ market = "US"
    /\ timeframe = <<>>
    /\ strategy = ""
    /\ prevPick = <<>>
    /\ uiSymbol = "NVDA"
    /\ isAnalyzing = FALSE
    /\ analysisResult = <<>>
    /\ livePrice = <<>>
    /\ currency = USD
    /\ forecast = Null
    /\ isForecasting = FALSE
    /\ picks = <<>>
    /\ activeStrategy = ""
    /\ isPicking = FALSE
    /\ analyses = <<>>
    /\ forecastsOpen = 0
    /\ picksOpen = <<>>
    /\ resultWriter = 0
    /\ priceWriter = 0
    /\ started = 0
    /\ downloaded = <<>>

Next ==
    \/ \E s \in Symbols : GetLivePriceCall(s)
    \/ \E resp \in QuoteResponses : GetLivePriceResume(resp)
    \/ \E s \in Symbols, m \in AnalysisMode, given \in BOOLEAN :
            AnalyzeStockCall(s, m, given)
    \/ StreamOpens
    \/ \E chunk \in Chunks : StreamChunk(chunk)
    \/ StreamEnds
    \/ StreamThrows
    \/ \E s \in Symbols : GetForecastCall(s)
    \/ \E resp \in ContextResponses : GetForecastContext(resp)
    \/ \E resp \in ForecastResponses : GetForecastResume(resp)
    \/ \E m \in Markets, tfArg \in Timeframes : GetTopPicksCall(m, tfArg)
    \/ \E resp \in PicksResponses : GetTopPicksResume(resp)
    \/ Return

Spec == Init /\ [][Next]_vars

\* getTopPicks called again and again by a caller that remembers the last label
PicksNext ==
    \/ \E m \in Markets, tfArg \in Timeframes : GetTopPicksCall(m, tfArg)
    \/ \E resp \in PicksResponses : GetTopPicksResume(resp)
    \/ PicksReturn

PicksSpec == Init /\ [][PicksNext]_vars

-----------------------------------------------------------------------------
(* The App component: handleAnalyze, handleForecast, handleGetPicks *)

\* The active tab is not a variable: every tab can be selected at any time, so
\* every control is one click away whatever the tab.  The analysis mode and
\* the screener's market select the request only and are left out as well.

\* symbols the user types into the search box ("" is the cleared box);
\* "TSLA" arrives through a recommendation card
UiSymbols == {"NVDA", ""}

\* chunks of the streams started from the App
UiChunks ==
    {TextChunk(TxtSELL),
     [hasText |-> FALSE, text |-> <<>>, grounding |-> << <<Source1, Source2>> >>]}

\* answers to the price request of handleAnalyze
UiQuoteResponses ==
    {Throws,
     Responds(JsonText([type |-> "object", price |-> 150, currency |-> USD,
                        exchange |-> NYSE])),
     Responds(JsonText([type |-> "object", price |-> 2500, currency |-> INR,
                        exchange |-> NYSE]))}

\* answers that decide what getForecast returns to handleForecast
UiForecastResponses ==
    {Throws,
     Responds(JsonText([type |-> "object", symbol |-> "NVDA",
                        scenarios |-> <<ScenarioOf("Bearish"), ScenarioOf("Base"),
                                        ScenarioOf("Bullish")>>,
                        confidenceScore |-> 70]))}

\* answers to the screener request of handleGetPicks
UiPicksResponses == {Throws, Responds(JsonText(ArrayOf(<<RecOf("TSLA")>>)))}

TfCustom == <<"C", "u", "s", "t", "o", "m">>
TfOneMonth == <<"1", " ", "M", "o", "n", "t", "h">>

\* values of the timeframe select and of the custom horizon box
UiPickTimeframes == {TfWeekOption, TfCustom}
UiCustomTimeframes == {<<" ">>, TfFiveYears}

\* the line terminator
NL == "\n"

\* the white space String.prototype.trim removes
Whitespace == {" ", NL}

RECURSIVE TrimStart(_)
TrimStart(s) ==
    IF s # <<>> /\ s[1] \in Whitespace THEN TrimStart(Tail(s)) ELSE s

RECURSIVE TrimEnd(_)
TrimEnd(s) ==
    IF s # <<>> /\ s[Len(s)] \in Whitespace
    THEN TrimEnd(SubSeq(s, 1, Len(s) - 1))
    ELSE s

\* String.prototype.trim
Trim(s) == TrimEnd(TrimStart(s))

\* selectedTimeframe and finalTimeframe of handleGetPicks
FinalTimeframe(sel, custom) ==
    IF Trim(IF sel = TfCustom THEN custom ELSE sel) # <<>>
    THEN Trim(IF sel = TfCustom THEN custom ELSE sel)
    ELSE TfOneMonth

\* a handleAnalyze invocation that has just called getLivePrice and
\* analyzeStock: data is what getLivePrice resolved with and returned what
\* analyzeStock returned, both empty until then
NewAnalysis(sym) ==
    [symbol |-> sym, stream |-> "opening", chunks |-> 0, fullText |-> <<>>,
     finalResponse |-> <<>>, quote |-> "pending", data |-> <<>>,
     returned |-> <<>>]

\* the invocation once analyzeStock has returned res (empty when it threw) and
\* the finally block has run
Closed(a, res) ==
    [a EXCEPT !.stream = "closed", !.chunks = 0, !.fullText = <<>>,
              !.finalResponse = <<>>, !.returned = res]

\* the state updater handleAnalyze passes to analyzeStock as onStream
OnStreamUpdate(prev, streamedText) ==
    [markdown |-> streamedText,
     sentiment |-> "neutral",
     groundingChunks |->
        IF prev # <<>> /\ "groundingChunks" \in DOMAIN prev[1]
        THEN prev[1].groundingChunks
        ELSE <<>>]

\* handleAnalyze with sym the symbol of the render it was created in: the
\* state is reset, the price fetch fired and analyzeStock called
HandleAnalyze(sym) ==
    /\ sym # ""
    /\ started < MaxSubmits
    /\ started' = started + 1
    /\ isAnalyzing' = TRUE
    /\ analysisResult' = <<>>
    /\ forecast' = Null
    /\ livePrice' = <<>>
    /\ analyses' = Append(analyses, NewAnalysis(sym))
    /\ resultWriter' = 0
    /\ priceWriter' = 0
    /\ UNCHANGED <<currency, isForecasting, picks, activeStrategy, isPicking,
                   forecastsOpen, picksOpen>>

\* the user edits the search box
SetSymbol(s) ==
    /\ uiSymbol # s
    /\ uiSymbol' = s
    /\ UNCHANGED <<isAnalyzing, analysisResult, livePrice, currency, forecast,
                   isForecasting, picks, activeStrategy, isPicking, analyses,
                   forecastsOpen, picksOpen, resultWriter, priceWriter>>
    /\ UNCHANGED <<callVars, prevPick, downloaded, started>>

\* the Analyze button, disabled while isAnalyzing
AnalyzeButton ==
    /\ ~isAnalyzing
    /\ HandleAnalyze(uiSymbol)
    /\ UNCHANGED uiSymbol
    /\ UNCHANGED <<callVars, prevPick, downloaded>>

\* handleKeyDown: Enter in the search box
EnterKey ==
    /\ HandleAnalyze(uiSymbol)
    /\ UNCHANGED uiSymbol
    /\ UNCHANGED <<callVars, prevPick, downloaded>>

\* the Analyze link of recommendation card i: setSymbol(pick.symbol), then
\* handleAnalyze of the current render, whose symbol is the one before the click
PickCardAnalyze(i) ==
    /\ i \in 1..Len(picks)
    /\ uiSymbol' = picks[i].symbol
    /\ IF uiSymbol = ""
       THEN UNCHANGED <<isAnalyzing, analysisResult, livePrice, currency, forecast,
                        isForecasting, picks, activeStrategy, isPicking, analyses,
                        forecastsOpen, picksOpen, resultWriter, priceWriter, started>>
       ELSE HandleAnalyze(uiSymbol)
    /\ uiSymbol' # uiSymbol \/ uiSymbol # ""
    /\ UNCHANGED <<callVars, prevPick, downloaded>>

QuoteSettlesClearsResult(i, resp) ==
    /\ i \in 1..Len(analyses)
    /\ analyses[i].quote = "pending"
    /\ analyses' = [analyses EXCEPT ![i].quote = "settled",
                                    ![i].data = <<GetLivePriceBody(resp).value>>]
    /\ IF GetLivePriceBody(resp).value # Null
       THEN /\ livePrice' = <<GetLivePriceBody(resp).value.price>>
            /\ currency' = GetLivePriceBody(resp).value.currency
            /\ priceWriter' = i
       ELSE UNCHANGED <<livePrice, currency, priceWriter>>
    /\ analysisResult' = <<>>
    /\ UNCHANGED <<uiSymbol, isAnalyzing, forecast, isForecasting,
                   picks, activeStrategy, isPicking, forecastsOpen, picksOpen,
                   resultWriter>>
    /\ UNCHANGED <<callVars, prevPick, downloaded, started>>

\* the price request of invocation i settles and the then-callback runs
QuoteSettles(i, resp) ==
    /\ i \in 1..Len(analyses)
    /\ analyses[i].quote = "pending"
    /\ analyses' = [analyses EXCEPT ![i].quote = "settled",
                                    ![i].data = <<GetLivePriceBody(resp).value>>]
    /\ IF GetLivePriceBody(resp).value # Null
       THEN /\ livePrice' = <<GetLivePriceBody(resp).value.price>>
            /\ currency' = GetLivePriceBody(resp).value.currency
            /\ priceWriter' = i
       ELSE UNCHANGED <<livePrice, currency, priceWriter>>
    /\ UNCHANGED <<uiSymbol, isAnalyzing, analysisResult, forecast, isForecasting,
                   picks, activeStrategy, isPicking, forecastsOpen, picksOpen,
                   resultWriter>>
    /\ UNCHANGED <<callVars, prevPick, downloaded, started>>

\* generateContentStream of invocation i resolves
UiStreamOpens(i) ==
    /\ i \in 1..Len(analyses)
    /\ analyses[i].stream = "opening"
    /\ analyses' = [analyses EXCEPT ![i].stream = "streaming"]
    /\ UNCHANGED <<uiSymbol, isAnalyzing, analysisResult, livePrice, currency,
                   forecast, isForecasting, picks, activeStrategy, isPicking,
                   forecastsOpen, picksOpen, resultWriter, priceWriter>>
    /\ UNCHANGED <<callVars, prevPick, downloaded, started>>

\* the stream of invocation i yields chunk: the loop body runs and onStream
\* updates analysisResult
UiStreamChunk(i, chunk) ==
    /\ i \in 1..Len(analyses)
    /\ analyses[i].stream = "streaming"
    /\ analyses[i].chunks < MaxUiChunks
    /\ analyses' = [analyses EXCEPT
                      ![i].chunks = @ + 1,
                      ![i].fullText = NextFullText(@, chunk),
                      ![i].finalResponse = <<chunk>>]
    /\ analysisResult' =
          <<OnStreamUpdate(analysisResult, NextFullText(analyses[i].fullText, chunk))>>
    /\ resultWriter' = i
    /\ UNCHANGED <<uiSymbol, isAnalyzing, livePrice, currency, forecast,
                   isForecasting, picks, activeStrategy, isPicking, forecastsOpen,
                   picksOpen, priceWriter>>
    /\ UNCHANGED <<callVars, prevPick, downloaded, started>>

\* the stream of invocation i ends: analyzeStock returns, handleAnalyze stores
\* the result and its finally block clears isAnalyzing
UiStreamEnds(i) ==
    /\ i \in 1..Len(analyses)
    /\ analyses[i].stream = "streaming"
    /\ analyses' = [analyses EXCEPT ![i] =
            Closed(@, <<AnalyzeStockReturn(analyses[i].fullText,
                                           analyses[i].finalResponse)>>)]
    /\ analysisResult' =
          <<AnalyzeStockReturn(analyses[i].fullText, analyses[i].finalResponse)>>
    /\ resultWriter' = i
    /\ isAnalyzing' = FALSE
    /\ UNCHANGED <<uiSymbol, livePrice, currency, forecast, isForecasting, picks,
                   activeStrategy, isPicking, forecastsOpen, picksOpen, priceWriter>>
    /\ UNCHANGED <<callVars, prevPick, downloaded, started>>

\* variant: isAnalyzing is cleared after the await, outside a finally block
UiStreamThrowsKeepsLoading(i) ==
    /\ i \in 1..Len(analyses)
    /\ analyses[i].stream \in {"opening", "streaming"}
    /\ analyses' = [analyses EXCEPT ![i] =
            Closed(@, IF AnalyzeStockCatch.threw THEN <<>>
                      ELSE <<AnalyzeStockCatch.value>>)]
    /\ IF AnalyzeStockCatch.threw
       THEN UNCHANGED <<analysisResult, resultWriter>>
       ELSE /\ analysisResult' = <<AnalyzeStockCatch.value>>
            /\ resultWriter' = i
    /\ UNCHANGED <<isAnalyzing, uiSymbol, livePrice, currency, forecast, isForecasting, picks,
                   activeStrategy, isPicking, forecastsOpen, picksOpen, priceWriter>>
    /\ UNCHANGED <<callVars, prevPick, downloaded, started>>

\* the stream of invocation i fails, on opening or after some chunks: the
\* result of analyzeStock's catch block is stored and isAnalyzing cleared
UiStreamThrows(i) ==
    /\ i \in 1..Len(analyses)
    /\ analyses[i].stream \in {"opening", "streaming"}
    /\ analyses' = [analyses EXCEPT ![i] =
            Closed(@, IF AnalyzeStockCatch.threw THEN <<>>
                      ELSE <<AnalyzeStockCatch.value>>)]
    /\ IF AnalyzeStockCatch.threw
       THEN UNCHANGED <<analysisResult, resultWriter>>
       ELSE /\ analysisResult' = <<AnalyzeStockCatch.value>>
            /\ resultWriter' = i
    /\ isAnalyzing' = FALSE
    /\ UNCHANGED <<uiSymbol, livePrice, currency, forecast, isForecasting, picks,
                   activeStrategy, isPicking, forecastsOpen, picksOpen, priceWriter>>
    /\ UNCHANGED <<callVars, prevPick, downloaded, started>>

\* livePrice || isAnalyzing: the card that holds the forecast button is shown
VerdictCardShown == (livePrice # <<>> /\ livePrice[1] # 0) \/ isAnalyzing

\* the Generate Forecast button, disabled while isForecasting
HandleForecast ==
    /\ VerdictCardShown
    /\ ~isForecasting
    /\ uiSymbol # ""
    /\ started < MaxSubmits
    /\ started' = started + 1
    /\ isForecasting' = TRUE
    /\ forecastsOpen' = forecastsOpen + 1
    /\ UNCHANGED <<uiSymbol, isAnalyzing, analysisResult, livePrice, currency,
                   forecast, picks, activeStrategy, isPicking, analyses, picksOpen,
                   resultWriter, priceWriter>>
    /\ UNCHANGED <<callVars, prevPick, downloaded>>

\* getForecast returns to a handleForecast invocation; resp is the answer that
\* decided its result
ForecastSettles(resp) ==
    /\ forecastsOpen > 0
    /\ forecastsOpen' = forecastsOpen - 1
    /\ forecast' = GetForecastBody(resp).value
    /\ isForecasting' = FALSE
    /\ UNCHANGED <<uiSymbol, isAnalyzing, analysisResult, livePrice, currency,
                   picks, activeStrategy, isPicking, analyses, picksOpen,
                   resultWriter, priceWriter>>
    /\ UNCHANGED <<callVars, prevPick, downloaded, started>>

\* the Find Top Picks button, disabled while isPicking, with the timeframe
\* select at sel and the custom horizon box at custom
HandleGetPicks(sel, custom) ==
    /\ ~isPicking
    /\ started < MaxSubmits
    /\ started' = started + 1
    /\ isPicking' = TRUE
    /\ picks' = <<>>
    /\ activeStrategy' = ""
    /\ picksOpen' = Append(picksOpen, FinalTimeframe(sel, custom))
    /\ UNCHANGED <<uiSymbol, isAnalyzing, analysisResult, livePrice, currency,
                   forecast, isForecasting, analyses, forecastsOpen, resultWriter,
                   priceWriter>>
    /\ UNCHANGED <<callVars, prevPick, downloaded>>

\* getTopPicks returns to the oldest handleGetPicks invocation
PicksSettle(resp) ==
    /\ picksOpen # <<>>
    /\ picksOpen' = Tail(picksOpen)
    /\ picks' = GetTopPicksBody(SelectStrategy(Head(picksOpen)), resp)
                    .value.recommendations.items
    /\ activeStrategy' = GetTopPicksBody(SelectStrategy(Head(picksOpen)), resp)
                             .value.strategyUsed
    /\ isPicking' = FALSE
    /\ UNCHANGED <<uiSymbol, isAnalyzing, analysisResult, livePrice, currency,
                   forecast, isForecasting, analyses, forecastsOpen, resultWriter,
                   priceWriter>>
    /\ UNCHANGED <<callVars, prevPick, downloaded, started>>

\* The exported Python script and the notebook built from it.  A text is a
\* sequence of pieces: a line terminator, one of the texts the notebook splits
\* the script at, or the rest of a line.

DefGetLivePrice == "def get_live_price"
DefAnalyzeStockDeep == "def analyze_stock_deep"
DefGetForecast == "def get_forecast"
IfName == "if __name__"

\* getPythonCode(): the script, with the body of each function cut to the
\* lines that decide how it is split
getPythonCode ==
    <<"import os", NL,
      NL,
      "client = genai.Client(api_key=API_KEY)", NL,
      NL,
      DefGetLivePrice, "(symbol: str):", NL,
      "    prompt = f\"\"\"Find the current real-time price\"\"\"", NL,
      NL,
      "    return json.loads(response.text)", NL,
      NL,
      DefAnalyzeStockDeep, "(symbol: str):", NL,
      "    price_data = get_live_price(symbol)", NL,
      "    return response.text, grounding_chunks", NL,
      NL,
      DefGetForecast, "(symbol: str):", NL,
      "    return json.loads(response.text)", NL,
      NL,
      "# MAIN EXECUTION", NL,
      NL,
      IfName, " == \"__main__\":", NL,
      "    forecast = get_forecast(target_stock)", NL>>

\* String.prototype.split(sep): the pieces between the occurrences of sep, cur
\* being the piece in progress
RECURSIVE SplitFrom(_, _, _)
SplitFrom(text, sep, cur) ==
    IF text = <<>> THEN <<cur>>
    ELSE IF Head(text) = sep
    THEN <<cur>> \o SplitFrom(Tail(text), sep, <<>>)
    ELSE SplitFrom(Tail(text), sep, Append(cur, Head(text)))

Split(text, sep) == SplitFrom(text, sep, <<>>)

\* the matches of /^/gm after the first: the position after each line
\* terminator
RECURSIVE InsertAfterNewlines(_, _)
InsertAfterNewlines(text, ins) ==
    IF text = <<>> THEN <<>>
    ELSE IF Head(text) = NL
    THEN <<NL, ins>> \o InsertAfterNewlines(Tail(text), ins)
    ELSE <<Head(text)>> \o InsertAfterNewlines(Tail(text), ins)

\* text.replace(/^/gm, ins)
ReplaceLineStarts(text, ins) == <<ins>> \o InsertAfterNewlines(text, ins)

\* getPythonCode().split(marker)[1].split(nextMarker)[0].trim()
\*     .replace(/^/gm, marker)
CodeCell(marker, nextMarker) ==
    ReplaceLineStarts(Trim(Split(Split(getPythonCode, marker)[2], nextMarker)[1]),
                      marker)

\* the sources of the three code cells getNotebookCode extracts from the script
getNotebookCode ==
    <<CodeCell(DefGetLivePrice, DefAnalyzeStockDeep),
      CodeCell(DefAnalyzeStockDeep, DefGetForecast),
      CodeCell(DefGetForecast, IfName)>>

\* the Download Notebook button of the export tab
DownloadNotebook ==
    /\ downloaded' = <<getNotebookCode>>
    /\ UNCHANGED <<uiSymbol, isAnalyzing, analysisResult, livePrice, currency,
                   forecast, isForecasting, picks, activeStrategy, isPicking,
                   analyses, forecastsOpen, picksOpen, resultWriter, priceWriter,
                   started>>
    /\ UNCHANGED <<callVars, prevPick>>

UiNext ==
    \/ \E s \in UiSymbols : SetSymbol(s)
    \/ AnalyzeButton
    \/ EnterKey
    \/ \E i \in DOMAIN picks : PickCardAnalyze(i)
    \/ \E i \in 1..MaxSubmits, resp \in UiQuoteResponses : QuoteSettles(i, resp)
    \/ \E i \in 1..MaxSubmits : UiStreamOpens(i)
    \/ \E i \in 1..MaxSubmits, chunk \in UiChunks : UiStreamChunk(i, chunk)
    \/ \E i \in 1..MaxSubmits : UiStreamEnds(i)
    \/ \E i \in 1..MaxSubmits : UiStreamThrows(i)
    \/ HandleForecast
    \/ \E resp \in UiForecastResponses : ForecastSettles(resp)
    \/ \E sel \in UiPickTimeframes, custom \in UiCustomTimeframes :
            HandleGetPicks(sel, custom)
    \/ \E resp \in UiPicksResponses : PicksSettle(resp)
    \/ DownloadNotebook

UiSpec == Init /\ [][UiNext]_vars

\* number of handleAnalyze invocations when the search box is studied alone
MaxLoneSubmits == 1

\* handleAnalyze alone: the search box, the two ways of submitting it and the
\* progress of the calls the invocations made
AnalyzeNext ==
    \/ \E s \in UiSymbols : SetSymbol(s)
    \/ started < MaxLoneSubmits /\ AnalyzeButton
    \/ started < MaxLoneSubmits /\ EnterKey
    \/ \E i \in 1..MaxLoneSubmits, resp \in UiQuoteResponses : QuoteSettles(i, resp)
    \/ \E i \in 1..MaxLoneSubmits : UiStreamOpens(i)
    \/ \E i \in 1..MaxLoneSubmits, chunk \in UiChunks : UiStreamChunk(i, chunk)
    \/ \E i \in 1..MaxLoneSubmits : UiStreamEnds(i)
    \/ \E i \in 1..MaxLoneSubmits : UiStreamThrows(i)

AnalyzeSpec == Init /\ [][AnalyzeNext]_vars

\* no stream stays open for ever: UiStreamThrows(i) is enabled exactly while
\* the stream of invocation i is open, so weak fairness on it leaves the
\* behaviours in which every stream ends (UiStreamEnds) or fails
AnalyzeFairSpec ==
    /\ AnalyzeSpec
    /\ \A i \in 1..MaxLoneSubmits : WF_vars(UiStreamThrows(i))

-----------------------------------------------------------------------------
(* Properties *)

RECURSIVE ConcatTexts(_)
\* the texts of the chunks cs joined in order; a chunk without text adds nothing
ConcatTexts(cs) ==
    IF cs = <<>> THEN <<>>
    ELSE ConcatTexts(SubSeq(cs, 1, Len(cs) - 1))
         \o (IF cs[Len(cs)].hasText THEN cs[Len(cs)].text ELSE <<>>)

\* text contains the lower-case keyword kw, letters compared without case
ContainsAnyCase(text, kw) ==
    \E i \in 0..(Len(text) - Len(kw)) :
        \A j \in 1..Len(kw) : ToLowerChar(text[i + j]) = kw[j]

KwBuy == <<"b", "u", "y">>
KwInvest == <<"i", "n", "v", "e", "s", "t">>
KwBullish == <<"b", "u", "l", "l", "i", "s", "h">>
KwSell == <<"s", "e", "l", "l">>
KwBearish == <<"b", "e", "a", "r", "i", "s", "h">>
KwPass == <<"p", "a", "s", "s">>

HasBullishKeyword(text) ==
    \/ ContainsAnyCase(text, KwBuy)
    \/ ContainsAnyCase(text, KwInvest)
    \/ ContainsAnyCase(text, KwBullish)

AnalysisSettled == pc \in {"analysisReturned", "analysisCaught"}

\* C1: getLivePrice never lets an exception escape; when the service call
\* throws or the response text is not JSON, it completes with null.
GetLivePriceNeverThrows ==
    pc = "priceDone" =>
        /\ ~escaped
        /\ Len(result) = 1
        /\ (response[1].threw \/ response[1].text.kind = "malformed")
              => result[1] = Null

GetLivePriceFailureSeen ==
    /\ pc = "priceDone"
    /\ symbol = "ZZZZ"
    /\ response \in {<<Throws>>, <<Responds(TextMalformed)>>}
    /\ result = <<Null>>
    /\ ~escaped

\* C2: for a non-empty symbol getLivePrice returns null or a quote with
\* price > 0 and a 3-letter currency code, never a non-positive price.
QuotePriceIsPositive ==
    (pc = "priceDone" /\ symbol # "" /\ Len(result) = 1) =>
        \/ result[1] = Null
        \/ /\ result[1].type = "object"
           /\ {"price", "currency"} \subseteq DOMAIN result[1]
           /\ result[1].price > 0
           /\ Len(result[1].currency) = 3

\* C3: analyzeStock never propagates an exception; when the service throws on
\* opening the stream or after any number of chunks, the call completes with
\* the fixed failure message and neutral sentiment, in quick and deep mode.
AnalyzeStockNeverThrows ==
    /\ AnalysisSettled => ~escaped
    /\ pc = "analysisCaught" =>
          result = <<[markdown |-> FailureMessage, sentiment |-> "neutral"]>>

AnalyzeStockFailedMidStream ==
    /\ pc = "analysisCaught"
    /\ mode = DEEP
    /\ Len(received) >= 2
    /\ ~escaped
    /\ result = <<[markdown |-> FailureMessage, sentiment |-> "neutral"]>>

\* C4: when the stream ends without error the returned text is the
\* concatenation of the texts of all received chunks in arrival order, a chunk
\* without text contributing the empty string.
AnalysisTextIsConcatenation ==
    pc = "analysisReturned" =>
        /\ Len(result) = 1
        /\ result[1].markdown = ConcatTexts(received)

NvdaStrongBuyReturned ==
    /\ pc = "analysisReturned"
    /\ symbol = "NVDA"
    /\ mode = QUICK
    /\ received = <<TextChunk(TxtNvdaLooks), TextChunk(TxtStrongBuy)>>
    /\ result[1].markdown =
          <<"N", "V", "D", "A", " ", "l", "o", "o", "k", "s", " ", "l", "i", "k",
            "e", " ", "a", " ", "s", "t", "r", "o", "n", "g", " ", "b", "u", "y",
            ".">>
    /\ result[1].sentiment = "bullish"

\* onStream was invoked once per received chunk, each argument being the
\* previous argument extended by the new chunk's text
OnePartialPerChunk ==
    /\ Len(streamCalls) = Len(received)
    /\ \A i \in 1..Len(streamCalls) :
          streamCalls[i] =
              (IF i = 1 THEN <<>> ELSE streamCalls[i - 1])
              \o (IF received[i].hasText THEN received[i].text ELSE <<>>)

\* C5 as stated: onStream is invoked exactly once per received chunk, before
\* the next chunk is consumed, with the buffer so far, and the last argument
\* equals the text finally returned.
OnPartialLastIsReturnedText ==
    onStreamGiven =>
        /\ OnePartialPerChunk
        /\ (AnalysisSettled /\ streamCalls # <<>> /\ Len(result) = 1)
              => streamCalls[Len(streamCalls)] = result[1].markdown

\* C5 amended: onStream is invoked exactly once per received chunk, before
\* the next chunk is consumed, with the buffer so far; when the stream ends
\* without error the last argument equals the text returned.
OnPartialLastIsReturnedTextOnSuccess ==
    onStreamGiven =>
        /\ OnePartialPerChunk
        /\ (pc = "analysisReturned" /\ streamCalls # <<>>)
              => (Len(result) = 1
                  /\ streamCalls[Len(streamCalls)] = result[1].markdown)

PartialsDeliveredAndReturned ==
    /\ pc = "analysisReturned"
    /\ onStreamGiven
    /\ Len(received) = 3
    /\ Len(streamCalls) = 3
    /\ ~received[2].hasText
    /\ streamCalls[1] # streamCalls[3]
    /\ streamCalls[3] = result[1].markdown

\* C6: the sentiment of every result analyzeStock returns, after a completed
\* or a failed stream, is one of bullish, bearish, neutral.
SentimentInRange ==
    AnalysisSettled =>
        /\ Len(result) = 1
        /\ result[1].sentiment \in {"bullish", "bearish", "neutral"}

BearishDeepResult ==
    /\ pc = "analysisReturned"
    /\ mode = DEEP
    /\ result[1].sentiment = "bearish"

\* C7: when the stream completes, the sentiment is bullish if the final text
\* contains "buy", "invest" or "bullish" in any letter case, wherever the
\* chunk boundaries fall.
BullishRule ==
    (pc = "analysisReturned" /\ HasBullishKeyword(ConcatTexts(received)))
        => result[1].sentiment = "bullish"

BuySplitAcrossChunks ==
    /\ pc = "analysisReturned"
    /\ Len(received) >= 2
    /\ ContainsAnyCase(ConcatTexts(received), KwBuy)
    /\ \A i \in 1..Len(received) : ~HasBullishKeyword(received[i].text)
    /\ result[1].sentiment = "bullish"

\* C8: when the stream completes, the sentiment is bearish if the final text
\* contains "sell" or "bearish" (any letter case) and no bullish keyword.
BearishRule ==
    (/\ pc = "analysisReturned"
     /\ \/ ContainsAnyCase(ConcatTexts(received), KwSell)
        \/ ContainsAnyCase(ConcatTexts(received), KwBearish)
     /\ ~HasBullishKeyword(ConcatTexts(received)))
        => result[1].sentiment = "bearish"

SellWithoutBullishKeyword ==
    /\ pc = "analysisReturned"
    /\ ContainsAnyCase(ConcatTexts(received), KwSell)
    /\ ~ContainsAnyCase(ConcatTexts(received), KwBearish)
    /\ ~ContainsAnyCase(ConcatTexts(received), KwPass)
    /\ ~HasBullishKeyword(ConcatTexts(received))
    /\ result[1].sentiment = "bearish"

\* C9 as stated: when the stream completes and the final text contains none
\* of buy, invest, bullish and none of sell, bearish, the sentiment is neutral.
NeutralWithoutListedKeywords ==
    (/\ pc = "analysisReturned"
     /\ ~HasBullishKeyword(ConcatTexts(received))
     /\ ~ContainsAnyCase(ConcatTexts(received), KwSell)
     /\ ~ContainsAnyCase(ConcatTexts(received), KwBearish))
        => result[1].sentiment = "neutral"

\* C9 amended: when the stream completes and the final text contains none of
\* buy, invest, bullish and none of pass, sell, bearish, the sentiment is
\* neutral.
NeutralWithoutAnyKeyword ==
    (/\ pc = "analysisReturned"
     /\ ~HasBullishKeyword(ConcatTexts(received))
     /\ ~ContainsAnyCase(ConcatTexts(received), KwPass)
     /\ ~ContainsAnyCase(ConcatTexts(received), KwSell)
     /\ ~ContainsAnyCase(ConcatTexts(received), KwBearish))
        => result[1].sentiment = "neutral"

NeutralTextReturned ==
    /\ pc = "analysisReturned"
    /\ Len(ConcatTexts(received)) > 0
    /\ ~HasBullishKeyword(ConcatTexts(received))
    /\ ~ContainsAnyCase(ConcatTexts(received), KwPass)
    /\ ~ContainsAnyCase(ConcatTexts(received), KwSell)
    /\ ~ContainsAnyCase(ConcatTexts(received), KwBearish)
    /\ result[1].sentiment = "neutral"

\* C10: getForecast returns null or a Forecast with exactly 3 scenarios whose
\* kinds are exactly Bearish, Base and Bullish, one of each, in any order.
ForecastHasThreeKinds ==
    (pc = "forecastDone" /\ Len(result) = 1) =>
        \/ result[1] = Null
        \/ /\ result[1].type = "object"
           /\ "scenarios" \in DOMAIN result[1]
           /\ Len(result[1].scenarios) = 3
           /\ {result[1].scenarios[i].type : i \in 1..3} = ScenarioTypes

\* C11: getForecast issues its two requests in sequence: the forecast request
\* only after the context request has settled, with the returned context in
\* its prompt; when the context request fails no forecast request is issued
\* and the result is null.
ForecastCallsInSequence ==
    /\ pc = "contextAwait" => requests = <<ContextRequest(symbol)>>
    /\ (pc \in {"forecastAwait", "forecastDone"} /\ Len(requests) = 2) =>
          /\ context # <<>>
          /\ requests[1] = ContextRequest(symbol)
          /\ requests[2].about = "forecast"
          /\ requests[2].context = context[1]
    /\ (pc = "forecastDone" /\ context = <<>>) =>
          /\ response = <<Throws>>
          /\ Len(requests) = 1
          /\ requests[1].about = "context"
          /\ result = <<Null>>
    /\ pc = "forecastAwait" => Len(requests) = 2

ForecastIssuedWithContext ==
    /\ pc = "forecastDone"
    /\ Len(requests) = 2
    /\ context = <<[kind |-> "plain", content |-> "150 USD on NASDAQ"]>>
    /\ requests[2].context = context[1]
    /\ result # <<Null>>

\* C12: when the forecast answer is malformed JSON, or either request throws,
\* getForecast completes with null and no exception escapes.
ForecastFailureGivesNull ==
    pc = "forecastDone" =>
        /\ ~escaped
        /\ Len(result) = 1
        /\ (response[1].threw \/ response[1].text.kind = "malformed")
              => result[1] = Null

ForecastMalformedSeen ==
    /\ pc = "forecastDone"
    /\ Len(requests) = 2
    /\ response = <<Responds(TextMalformed)>>
    /\ result = <<Null>>
    /\ ~escaped

PicksStarted == pc \in {"picksAwait", "picksDone"}

\* C13 as stated: the label getTopPicks selects and returns is one of six
\* labels: intra-day, swing, month 1-3, month 4-6, year, default.
StrategyIsOneOfSix ==
    PicksStarted =>
        /\ strategy \in {IntraDayMomentum, SwingTrading, ShortToMediumTermTrend,
                         PositionTrading, LongTermValue, BalancedGrowthValue}
        /\ (pc = "picksDone" /\ Len(result) = 1)
              => result[1].strategyUsed = strategy

\* C13 amended: the label getTopPicks selects and returns is one of seven
\* labels: the six above and the generic trend-following label.
StrategyIsOneOfSeven ==
    PicksStarted =>
        /\ strategy \in {IntraDayMomentum, SwingTrading, ShortToMediumTermTrend,
                         PositionTrading, TrendFollowing, LongTermValue,
                         BalancedGrowthValue}
        /\ (pc = "picksDone")
              => (Len(result) = 1 /\ result[1].strategyUsed = strategy)

TrendFollowingReturned ==
    /\ pc = "picksDone"
    /\ timeframe = TfNineMonths
    /\ result[1].strategyUsed = TrendFollowing

\* timeframe matches none of the keywords day, intraday, week, month, year
NoTimeframeKeyword(tfArg) ==
    /\ ~ContainsAnyCase(tfArg, <<"d", "a", "y">>)
    /\ ~ContainsAnyCase(tfArg, <<"i", "n", "t", "r", "a", "d", "a", "y">>)
    /\ ~ContainsAnyCase(tfArg, <<"w", "e", "e", "k">>)
    /\ ~ContainsAnyCase(tfArg, <<"m", "o", "n", "t", "h">>)
    /\ ~ContainsAnyCase(tfArg, <<"y", "e", "a", "r">>)

\* C14: getTopPicks uses the default "balanced growth & value" label when the
\* lower-cased timeframe contains none of day, intraday, week, month, year,
\* and in no other case.
DefaultLabelIffNoKeyword ==
    PicksStarted =>
        /\ (strategy = BalancedGrowthValue) <=> NoTimeframeKeyword(timeframe)
        /\ pc = "picksDone" =>
              (Len(result) = 1 /\ result[1].strategyUsed = strategy)

DefaultLabelReturned ==
    /\ pc = "picksDone"
    /\ timeframe = TfLongTerm
    /\ result[1].strategyUsed = BalancedGrowthValue

\* C15: the label getTopPicks returns depends on the timeframe only: a call
\* returns the label the previous call with the same timeframe returned,
\* whatever the market and the service's answer; 'Intraday' gives the
\* intra-day momentum label.
LabelIsFunctionOfTimeframe ==
    pc = "picksDone" =>
        /\ Len(result) = 1
        /\ (prevPick # <<>> /\ prevPick[1].timeframe = timeframe)
              => result[1].strategyUsed = prevPick[1].strategyUsed
        /\ timeframe = TfIntraday => result[1].strategyUsed = IntraDayMomentum

IntradayTwiceSameLabel ==
    /\ pc = "picksDone"
    /\ timeframe = TfIntraday
    /\ market = "IN"
    /\ response = <<Throws>>
    /\ prevPick # <<>>
    /\ prevPick[1].timeframe = TfIntraday
    /\ prevPick[1].market = "US"
    /\ ~prevPick[1].threw
    /\ result[1].strategyUsed = IntraDayMomentum
    /\ prevPick[1].strategyUsed = IntraDayMomentum

\* the request of the finished call failed or was answered without usable text
PicksAnswerUnusable ==
    \/ response[1].threw
    \/ response[1].text.kind \in {"malformed", "empty", "undefined"}

\* C16: on a transport failure, malformed JSON or empty response text
\* getTopPicks completes without raising and returns the empty list together
\* with the label selected for the timeframe.
PicksFailureGivesEmptyList ==
    pc = "picksDone" =>
        /\ ~escaped
        /\ Len(result) = 1
        /\ PicksAnswerUnusable =>
              /\ result[1].recommendations = EmptyArray
              /\ result[1].strategyUsed = strategy
              /\ strategy # ""

PicksMalformedSeen ==
    /\ pc = "picksDone"
    /\ timeframe = TfWeekOption
    /\ response = <<Responds(TextMalformed)>>
    /\ result = <<[recommendations |-> EmptyArray, strategyUsed |-> SwingTrading]>>

\* C17: no operation retries: a call of getLivePrice, analyzeStock or
\* getTopPicks issues exactly one request, a call of getForecast at most two,
\* and once a request has failed the call has ended without a further request.
NoRetry ==
    /\ pc \in {"priceAwait", "priceDone", "streamOpening", "streaming",
               "analysisReturned", "analysisCaught", "picksAwait", "picksDone"}
          => Len(requests) = 1
    /\ pc \in {"contextAwait", "forecastAwait", "forecastDone"}
          => Len(requests) \in {1, 2}
    /\ (response # <<>> /\ response[1].threw)
          => pc \in {"priceDone", "forecastDone", "picksDone"}
    /\ pc = "idle" => requests = <<>>

ForecastRequestFailedOnce ==
    /\ pc = "forecastDone"
    /\ Len(requests) = 2
    /\ response = <<Throws>>
    /\ result = <<Null>>

\* C18: on an empty response text every operation returns its sentinel: null
\* for getLivePrice and getForecast, the empty list for getTopPicks, and the
\* fixed failure string with neutral sentiment for analyzeStock when the
\* stream ends having delivered no text.
EmptyTextGivesSentinel ==
    /\ (pc \in {"priceDone", "forecastDone"} /\ ~response[1].threw
        /\ response[1].text.kind \in {"empty", "undefined"})
          => result = <<Null>>
    /\ (pc = "picksDone" /\ ~response[1].threw
        /\ response[1].text.kind \in {"empty", "undefined"})
          => (Len(result) = 1 /\ result[1].recommendations = EmptyArray)
    /\ (pc = "analysisReturned" /\ ConcatTexts(received) = <<>>)
          => (/\ Len(result) = 1
              /\ result[1].markdown = FailureMessage
              /\ result[1].sentiment = "neutral")


\* an analysis stream started by handleAnalyze invocation i is still open
StreamOpen(i) == analyses[i].stream \in {"opening", "streaming"}

\* C19: in every reachable state of the App, an open analysis stream implies
\* isAnalyzing, an outstanding forecast call implies isForecasting and an
\* outstanding screener call implies isPicking, whatever the user does
\* (Enter-key submissions included).
LoadingWhileOutstanding ==
    /\ (\E i \in DOMAIN analyses : StreamOpen(i)) => isAnalyzing
    /\ forecastsOpen > 0 => isForecasting
    /\ picksOpen # <<>> => isPicking

\* C20: once a newer submission has started, the displayed AnalysisResult is
\* never written by an older stream (neither a chunk nor its final result), and
\* when every stream has finished the displayed result is the newest
\* submission's.
OlderStreamIgnored ==
    /\ resultWriter \in {0, Len(analyses)}
    /\ (analyses # <<>> /\ \A i \in DOMAIN analyses : ~StreamOpen(i))
          => resultWriter = Len(analyses)


\* C21: within one handleAnalyze invocation the quote and the stream do not
\* observe each other: the displayed analysis and isAnalyzing are determined
\* by the progress of the stream alone (whether the quote is pending, absent
\* or stored), and the stored price and currency by the quote alone (whatever
\* the stream has done).
QuoteAndStreamIndependent ==
    Len(analyses) = 1 =>
        /\ isAnalyzing = StreamOpen(1)
        /\ analysisResult =
              IF analyses[1].stream = "closed" THEN analyses[1].returned
              ELSE IF analyses[1].chunks = 0 THEN <<>>
              ELSE <<[markdown |-> analyses[1].fullText,
                      sentiment |-> "neutral",
                      groundingChunks |-> <<>>]>>
        /\ (analyses[1].quote = "pending") = (analyses[1].data = <<>>)
        /\ livePrice =
              IF analyses[1].data # <<>> /\ analyses[1].data[1] # Null
              THEN <<analyses[1].data[1].price>>
              ELSE <<>>
        /\ currency =
              IF analyses[1].data # <<>> /\ analyses[1].data[1] # Null
              THEN analyses[1].data[1].currency
              ELSE USD

QuoteArrivedMidStream ==
    /\ Len(analyses) = 1
    /\ analyses[1].stream = "streaming"
    /\ analyses[1].chunks = 1
    /\ analysisResult # <<>>
    /\ livePrice = <<2500>>
    /\ currency = INR


\* C22: in every reachable state in which an analysis stream is still open the
\* displayed AnalysisResult, if any, has sentiment neutral; bullish or bearish
\* appears only when no stream is open.
NeutralWhileStreamOpen ==
    ((\E i \in DOMAIN analyses : StreamOpen(i)) /\ analysisResult # <<>>)
        => analysisResult[1].sentiment = "neutral"


\* C23: when handleAnalyze starts a new analysis every field of the previous
\* quote is discarded: as long as no quote has been stored since the last
\* submission, no price is displayed and the currency is the initial one.
QuoteReplacedWholesale ==
    (analyses # <<>> /\ priceWriter = 0)
        => (livePrice = <<>> /\ currency = USD)


\* C24: the citations analyzeStock returns are exactly those of the last
\* received chunk: the empty list when no chunk was received or the last chunk
\* carries none, whatever earlier chunks carried.
CitationsOfLastChunk ==
    pc = "analysisReturned" =>
        /\ Len(result) = 1
        /\ result[1].groundingChunks =
              IF received = <<>> THEN <<>>
              ELSE IF received[Len(received)].grounding = <<>> THEN <<>>
              ELSE received[Len(received)].grounding[1]

CitationsOfEarlierChunkDropped ==
    /\ pc = "analysisReturned"
    /\ Len(received) = 2
    /\ received[1].grounding = << <<Source1, Source2>> >>
    /\ received[2] = TextChunk(TxtSELL)
    /\ result[1].groundingChunks = <<>>


DigitChars == <<"0", "1", "2", "3", "4", "5", "6", "7", "8", "9">>

IsDigit(c) == \E d \in DOMAIN DigitChars : DigitChars[d] = c

DigitValue(c) == (CHOOSE d \in DOMAIN DigitChars : DigitChars[d] = c) - 1

\* the number written in a timeframe, read from its digits in order; 0 when
\* the timeframe has no digit
RECURSIVE NumberIn(_, _)
NumberIn(s, acc) ==
    IF s = <<>> THEN acc
    ELSE IF IsDigit(Head(s)) THEN NumberIn(Tail(s), 10 * acc + DigitValue(Head(s)))
    ELSE NumberIn(Tail(s), acc)

\* the timeframe is matched by the month keyword and by neither day nor week
MonthTimeframe(tfArg) ==
    /\ ContainsAnyCase(tfArg, <<"m", "o", "n", "t", "h">>)
    /\ ~ContainsAnyCase(tfArg, <<"d", "a", "y">>)
    /\ ~ContainsAnyCase(tfArg, <<"w", "e", "e", "k">>)

\* C25: for a timeframe matched by the month keyword (and not by day or
\* week), getTopPicks uses the short-to-medium-term label when the month count
\* is 1 to 3, the position-trading label when it is 4 to 6, and the
\* trend-following label for any other count or none.
MonthLabelByCount ==
    (pc = "picksDone" /\ MonthTimeframe(timeframe)) =>
        /\ Len(result) = 1
        /\ result[1].strategyUsed =
              IF NumberIn(timeframe, 0) \in 1..3 THEN ShortToMediumTermTrend
              ELSE IF NumberIn(timeframe, 0) \in 4..6 THEN PositionTrading
              ELSE TrendFollowing


\* where piece first occurs in text
IndexOf(text, piece) ==
    CHOOSE i \in DOMAIN text :
        text[i] = piece /\ \A j \in 1..(i - 1) : text[j] # piece

\* the function of the exported script that starts at marker: its lines up to
\* the next section, without the blank lines that follow it
ScriptFunction(marker, nextMarker) ==
    TrimEnd(SubSeq(getPythonCode, IndexOf(getPythonCode, marker),
                   IndexOf(getPythonCode, nextMarker) - 1))

\* C26: each extracted code cell of the downloaded notebook reproduces the
\* corresponding function of the exported script: the same lines in the same
\* order, with the def header exactly once, at the start of the cell.
NotebookCellsReproduceScript ==
    downloaded # <<>> =>
        downloaded[1] =
            <<ScriptFunction(DefGetLivePrice, DefAnalyzeStockDeep),
              ScriptFunction(DefAnalyzeStockDeep, DefGetForecast),
              ScriptFunction(DefGetForecast, IfName)>>


\* C27: a click on the Analyze link of a recommendation card starts one new
\* handleAnalyze invocation, whose quote fetch and stream are for the symbol
\* of that recommendation.
PickCardAnalyzesItsSymbol ==
    [][\A i \in DOMAIN picks :
          PickCardAnalyze(i) =>
              /\ Len(analyses') = Len(analyses) + 1
              /\ analyses'[Len(analyses')].symbol = picks[i].symbol]_vars


\* C28: at most one analysis stream started by handleAnalyze is open at any
\* time, whatever the user does (Analyze button, Enter key, Analyze on a
\* recommendation card).
AtMostOneStreamOpen ==
    Cardinality({i \in DOMAIN analyses : StreamOpen(i)}) <= 1


\* the newest handleAnalyze invocation
Newest == Len(analyses)

\* C29: a displayed live price was stored by the quote of the most recent
\* submission: once a newer submission has reset the price, the quote of an
\* earlier submission never sets livePrice or currency.
LivePriceOfNewestSubmission ==
    livePrice # <<>> => priceWriter = Newest


\* C30: under fairness, whenever isAnalyzing is set or a stream is open, later
\* every invocation's stream has ended or failed and isAnalyzing is cleared
\* (also when the service throws mid-stream); and when a single invocation has
\* finished, isAnalyzing is false and the displayed AnalysisResult is the
\* result analyzeStock returned to it.
AnalyzeEventuallySettles ==
    /\ (isAnalyzing \/ \E i \in DOMAIN analyses : StreamOpen(i))
          ~> (~isAnalyzing /\ \A i \in DOMAIN analyses : ~StreamOpen(i))
    /\ []((Len(analyses) = 1 /\ ~StreamOpen(1)) =>
              /\ ~isAnalyzing
              /\ analyses[1].returned # <<>>
              /\ analysisResult = analyses[1].returned)

InvocationFailedAndSettled ==
    /\ Len(analyses) = 1
    /\ analyses[1].stream = "closed"
    /\ ~isAnalyzing
    /\ analysisResult = <<[markdown |-> FailureMessage, sentiment |-> "neutral"]>>
    /\ analyses[1].returned = analysisResult

====
